---- MODULE Spec2Model ----
(***************************************************************************)
(* Model of CryptographProcessor (src/src/index.ts): random material ->    *)
(* scrypt key -> aes-256-cbc encryption (utf8 in, hex out) -> decryption   *)
(* (hex in, utf8 out).                                                     *)
(*                                                                         *)
(* Strings are sequences of UTF-16 code units (JavaScript strings), byte   *)
(* buffers are sequences of 0..255.                                        *)
(***************************************************************************)
EXTENDS Integers, Sequences, FiniteSets, TLC

\* ------------------------------------------------------------------ bounds
MaxLen == 17      \* longest input string, in code units
NumSeeds == 2     \* number of distinct outputs of the random source
MaxRuns == 2      \* number of invocations of main on one processor
MaxTamperLen == 6 \* longest input string whose ciphertext is tampered with

\* --------------------------------------------------------------- constants
keyLength == 32   \* private readonly keyLength
BlockSize == 16   \* block (and IV) size of 'aes-256-cbc'
RandomSize == 16  \* createRandomBytes(16)

None == [none |-> TRUE]

Min(a, b) == IF a < b THEN a ELSE b

\* ------------------------------------------------------------ utf8 codec
IsHigh(c) == c >= 55296 /\ c <= 56319
IsLow(c) == c >= 56320 /\ c <= 57343

\* Buffer.from(s, 'utf8'): an unpaired surrogate is written as U+FFFD.
RECURSIVE Utf8EncodeFrom(_, _)
Utf8EncodeFrom(s, i) ==
    IF i > Len(s) THEN <<>>
    ELSE LET c == s[i] IN
         IF c < 128 THEN <<c>> \o Utf8EncodeFrom(s, i + 1)
         ELSE IF c < 2048
         THEN <<192 + (c \div 64), 128 + (c % 64)>> \o Utf8EncodeFrom(s, i + 1)
         ELSE IF IsHigh(c) /\ i < Len(s) /\ IsLow(s[i + 1])
         THEN LET cp == 65536 + (c - 55296) * 1024 + (s[i + 1] - 56320)
              IN <<240 + (cp \div 262144), 128 + ((cp \div 4096) % 64),
                   128 + ((cp \div 64) % 64), 128 + (cp % 64)>>
                 \o Utf8EncodeFrom(s, i + 2)
         ELSE IF IsHigh(c) \/ IsLow(c)
         THEN <<239, 191, 189>> \o Utf8EncodeFrom(s, i + 1)
         ELSE <<224 + (c \div 4096), 128 + ((c \div 64) % 64), 128 + (c % 64)>>
              \o Utf8EncodeFrom(s, i + 1)

Utf8Encode(s) == Utf8EncodeFrom(s, 1)

\* number of continuation bytes a lead byte asks for (0: not a lead byte)
Utf8Need(b) ==
    IF b >= 194 /\ b <= 223 THEN 1
    ELSE IF b >= 224 /\ b <= 239 THEN 2
    ELSE IF b >= 240 /\ b <= 244 THEN 3
    ELSE 0

\* is x acceptable as the j-th continuation byte after lead byte b
Utf8ContOk(b, j, x) ==
    IF j = 1
    THEN (IF b = 224 THEN x >= 160 /\ x <= 191
          ELSE IF b = 237 THEN x >= 128 /\ x <= 159
          ELSE IF b = 240 THEN x >= 144 /\ x <= 191
          ELSE IF b = 244 THEN x >= 128 /\ x <= 143
          ELSE x >= 128 /\ x <= 191)
    ELSE x >= 128 /\ x <= 191

\* how many of the continuation bytes after position i are present and valid
RECURSIVE Utf8Have(_, _, _, _)
Utf8Have(b, i, j, n) ==
    IF j > n \/ i + j > Len(b) THEN j - 1
    ELSE IF Utf8ContOk(b[i], j, b[i + j]) THEN Utf8Have(b, i, j + 1, n)
    ELSE j - 1

Utf8Units(b, i, n) ==
    IF n = 1 THEN <<(b[i] - 192) * 64 + (b[i + 1] - 128)>>
    ELSE IF n = 2
    THEN <<(b[i] - 224) * 4096 + (b[i + 1] - 128) * 64 + (b[i + 2] - 128)>>
    ELSE LET cp == (b[i] - 240) * 262144 + (b[i + 1] - 128) * 4096
                   + (b[i + 2] - 128) * 64 + (b[i + 3] - 128)
         IN <<55296 + ((cp - 65536) \div 1024), 56320 + ((cp - 65536) % 1024)>>

\* StringDecoder('utf8'): write keeps an incomplete trailing sequence in
\* rest, end turns it into U+FFFD; an invalid sequence becomes U+FFFD.
RECURSIVE Utf8DecodeFrom(_, _, _)
Utf8DecodeFrom(b, i, atEnd) ==
    IF i > Len(b) THEN [out |-> <<>>, rest |-> <<>>]
    ELSE IF b[i] < 128
    THEN LET r == Utf8DecodeFrom(b, i + 1, atEnd)
         IN [out |-> <<b[i]>> \o r.out, rest |-> r.rest]
    ELSE IF Utf8Need(b[i]) = 0
    THEN LET r == Utf8DecodeFrom(b, i + 1, atEnd)
         IN [out |-> <<65533>> \o r.out, rest |-> r.rest]
    ELSE LET n == Utf8Need(b[i])
             k == Utf8Have(b, i, 1, n)
         IN IF k = n
            THEN LET r == Utf8DecodeFrom(b, i + n + 1, atEnd)
                 IN [out |-> Utf8Units(b, i, n) \o r.out, rest |-> r.rest]
            ELSE IF i + k = Len(b)
            THEN (IF atEnd THEN [out |-> <<65533>>, rest |-> <<>>]
                  ELSE [out |-> <<>>, rest |-> SubSeq(b, i, Len(b))])
            ELSE LET r == Utf8DecodeFrom(b, i + k + 1, atEnd)
                 IN [out |-> <<65533>> \o r.out, rest |-> r.rest]

DecoderWrite(pending, bytes) == Utf8DecodeFrom(pending \o bytes, 1, FALSE)
DecoderEnd(pending, bytes) == Utf8DecodeFrom(pending \o bytes, 1, TRUE).out

\* ------------------------------------------------------------- hex codec
HexDigit(v) == IF v < 10 THEN 48 + v ELSE 87 + v

HexEncode(bytes) ==
    [i \in 1..(2 * Len(bytes)) |->
        IF i % 2 = 1 THEN HexDigit(bytes[(i + 1) \div 2] \div 16)
        ELSE HexDigit(bytes[i \div 2] % 16)]

\* value of a hex digit in either case, -1 for any other character
HexVal(ch) ==
    IF ch >= 48 /\ ch <= 57 THEN ch - 48
    ELSE IF ch >= 97 /\ ch <= 102 THEN ch - 87
    ELSE IF ch >= 65 /\ ch <= 70 THEN ch - 55
    ELSE 0 - 1

\* Buffer.from(s, 'hex'): decoding stops at the first pair that is not hex
RECURSIVE HexDecodeFrom(_, _)
HexDecodeFrom(s, i) ==
    IF 2 * i > Len(s) THEN <<>>
    ELSE IF HexVal(s[2 * i - 1]) < 0 \/ HexVal(s[2 * i]) < 0 THEN <<>>
    ELSE <<HexVal(s[2 * i - 1]) * 16 + HexVal(s[2 * i])>> \o HexDecodeFrom(s, i + 1)

HexDecode(s) == HexDecodeFrom(s, 1)

\* ---------------------------------------------------------- base64 codec
Base64Char(v) ==
    IF v < 26 THEN 65 + v
    ELSE IF v < 52 THEN 71 + v
    ELSE IF v < 62 THEN v - 4
    ELSE IF v = 62 THEN 43
    ELSE 47

\* Buffer.toString('base64'): 3 bytes -> 4 characters, '=' padding
RECURSIVE Base64EncodeFrom(_, _)
Base64EncodeFrom(b, i) ==
    IF i > Len(b) THEN <<>>
    ELSE IF i = Len(b)
    THEN <<Base64Char(b[i] \div 4), Base64Char((b[i] % 4) * 16), 61, 61>>
    ELSE IF i + 1 = Len(b)
    THEN <<Base64Char(b[i] \div 4),
           Base64Char((b[i] % 4) * 16 + (b[i + 1] \div 16)),
           Base64Char((b[i + 1] % 16) * 4), 61>>
    ELSE <<Base64Char(b[i] \div 4),
           Base64Char((b[i] % 4) * 16 + (b[i + 1] \div 16)),
           Base64Char((b[i + 1] % 16) * 4 + (b[i + 2] \div 64)),
           Base64Char(b[i + 2] % 64)>> \o Base64EncodeFrom(b, i + 3)

Base64Encode(b) == Base64EncodeFrom(b, 1)

\* String.prototype.substring(0, n)
Substring0(s, n) == SubSeq(s, 1, Min(n, Len(s)))

\* ------------------------------------------------- library: crypto module
\* Error codes of the errors node's crypto module throws.
ErrRandom == [code |-> "ERR_CRYPTO_OPERATION_FAILED"]
ErrScrypt == [code |-> "ERR_CRYPTO_SCRYPT_FAILED"]
ErrKeyLen == [code |-> "ERR_CRYPTO_INVALID_KEYLEN"]
ErrIv == [code |-> "ERR_CRYPTO_INVALID_IV"]
ErrFinalLength == [code |-> "ERR_OSSL_WRONG_FINAL_BLOCK_LENGTH"]
ErrBadDecrypt == [code |-> "ERR_OSSL_BAD_DECRYPT"]

Ok(v) == [ok |-> TRUE, value |-> v]
Fail(e) == [ok |-> FALSE, error |-> e]

\* crypto.randomBytes(size): any byte sequence of that length (a few
\* representatives, the all-zero one included), or a failure of the source.
RandomBuffers(size) ==
    {[i \in 1..size |-> (s * 85 + (i - 1) * s * 59) % 256] : s \in 0..(NumSeeds - 1)}

randomBytes(size) == {Ok(b) : b \in RandomBuffers(size)} \cup {Fail(ErrRandom)}

\* crypto.scryptSync(password, salt, keylen): a deterministic function of
\* the utf8 bytes of password and salt (stand-in for the scrypt mixing).
ScryptBytes(pw, sl, keylen) ==
    [i \in 1..keylen |->
        (i * 31 + (IF Len(pw) = 0 THEN 0 ELSE pw[((i * 5) % Len(pw)) + 1] * 7)
                + (IF Len(sl) = 0 THEN 0 ELSE sl[((i * 3) % Len(sl)) + 1] * 13)) % 256]

scryptSync(password, salt, keylen) ==
    {Ok(ScryptBytes(Utf8Encode(password), Utf8Encode(salt), keylen)), Fail(ErrScrypt)}

\* bitwise exclusive or of two bytes
RECURSIVE XorBits(_, _, _)
XorBits(a, b, n) ==
    IF n = 0 THEN 0
    ELSE ((a + b) % 2) + 2 * XorBits(a \div 2, b \div 2, n - 1)

XorBlock(x, y) == [i \in 1..BlockSize |-> XorBits(x[i], y[i], 8)]

\* The block transformation of the cipher under a 32 byte key: a keyed
\* bijection of 16 byte blocks (stand-in for the AES rounds), and its inverse.
BlockEncrypt(key, b) ==
    [i \in 1..BlockSize |->
        (b[((i + 4) % BlockSize) + 1] * 5 + key[i] + 3 * key[i + BlockSize]) % 256]

BlockDecrypt(key, c) ==
    [j \in 1..BlockSize |->
        LET i == ((j + 10) % BlockSize) + 1
        IN (((c[i] + 1024 - key[i] - 3 * key[i + BlockSize]) % 256) * 205) % 256]

\* CBC chaining over the whole blocks of bytes, starting from prev
RECURSIVE CbcEncrypt(_, _, _)
CbcEncrypt(key, prev, bytes) ==
    IF Len(bytes) < BlockSize THEN <<>>
    ELSE LET c == BlockEncrypt(key, XorBlock(SubSeq(bytes, 1, BlockSize), prev))
         IN c \o CbcEncrypt(key, c, SubSeq(bytes, BlockSize + 1, Len(bytes)))

RECURSIVE CbcDecrypt(_, _, _)
CbcDecrypt(key, prev, bytes) ==
    IF Len(bytes) < BlockSize THEN <<>>
    ELSE LET c == SubSeq(bytes, 1, BlockSize)
         IN XorBlock(BlockDecrypt(key, c), prev)
            \o CbcDecrypt(key, c, SubSeq(bytes, BlockSize + 1, Len(bytes)))

LastBlock(prev, bytes) ==
    IF Len(bytes) < BlockSize THEN prev
    ELSE SubSeq(bytes, Len(bytes) - BlockSize + 1, Len(bytes))

\* crypto.createCipheriv / createDecipheriv(algorithm, key, iv): key and iv
\* given as strings are taken as utf8; both lengths are checked.
NewState(kind, key, iv) ==
    [kind |-> kind, key |-> key, iv |-> iv, prev |-> iv, buf |-> <<>>,
     pending |-> <<>>, calls |-> <<>>, input |-> <<>>]

createCipheriv(kind, key, iv) ==
    LET k == Utf8Encode(key)
        v == Utf8Encode(iv)
    IN IF Len(v) # BlockSize THEN Fail(ErrIv)
       ELSE IF Len(k) # keyLength THEN Fail(ErrKeyLen)
       ELSE Ok(NewState(kind, k, v))

\* cipher.update(data, 'utf8', 'hex'): the whole blocks are encrypted, the
\* remainder is buffered.
CipherUpdate(c, data) ==
    LET bytes == c.buf \o Utf8Encode(data)
        n == (Len(bytes) \div BlockSize) * BlockSize
        out == CbcEncrypt(c.key, c.prev, SubSeq(bytes, 1, n))
    IN [obj |-> [c EXCEPT !.prev = LastBlock(c.prev, out),
                          !.buf = SubSeq(bytes, n + 1, Len(bytes)),
                          !.calls = Append(c.calls, "update"),
                          !.input = data],
        out |-> HexEncode(out)]

\* cipher.final('hex'): the buffered bytes are padded to one block (a whole
\* block of padding when the buffer is empty) and encrypted.
CipherFinal(c) ==
    LET p == BlockSize - Len(c.buf)
        block == c.buf \o [i \in 1..p |-> p]
        out == CbcEncrypt(c.key, c.prev, block)
    IN [obj |-> [c EXCEPT !.prev = LastBlock(c.prev, out), !.buf = <<>>,
                          !.calls = Append(c.calls, "final")],
        out |-> HexEncode(out)]

\* decipher.update(data, 'hex', 'utf8'): the last whole block is held back
\* for final; the decrypted bytes go through the utf8 string decoder.
DecipherUpdate(d, data) ==
    LET bytes == d.buf \o HexDecode(data)
        whole == Len(bytes) \div BlockSize
        n == IF Len(bytes) > 0 /\ Len(bytes) % BlockSize = 0
             THEN (whole - 1) * BlockSize ELSE whole * BlockSize
        ct == SubSeq(bytes, 1, n)
        dec == DecoderWrite(d.pending, CbcDecrypt(d.key, d.prev, ct))
    IN [obj |-> [d EXCEPT !.prev = LastBlock(d.prev, ct),
                          !.buf = SubSeq(bytes, n + 1, Len(bytes)),
                          !.pending = dec.rest,
                          !.calls = Append(d.calls, "update"),
                          !.input = data],
        out |-> dec.out]

PaddingOk(raw) ==
    LET p == raw[BlockSize]
    IN /\ p >= 1
       /\ p <= BlockSize
       /\ \A i \in (BlockSize - p + 1)..BlockSize : raw[i] = p

\* decipher.final('utf8'): the held block is decrypted and its padding is
\* checked and stripped.
DecipherFinal(d) ==
    LET called == [d EXCEPT !.calls = Append(d.calls, "final")]
    IN IF Len(d.buf) # BlockSize THEN [obj |-> called, res |-> Fail(ErrFinalLength)]
       ELSE LET raw == CbcDecrypt(d.key, d.prev, d.buf)
            IN IF ~PaddingOk(raw) THEN [obj |-> called, res |-> Fail(ErrBadDecrypt)]
               ELSE [obj |-> [called EXCEPT !.buf = <<>>, !.pending = <<>>],
                     res |-> Ok(DecoderEnd(d.pending,
                                           SubSeq(raw, 1, BlockSize - raw[BlockSize])))]

\* ------------------------------------------------------------ the program
VARIABLES
    pc,                \* position in main, "done" / "thrown" once it has ended
    run,               \* number of the current invocation of main
    target,            \* the argument of main
    password, salt, iv, commonKey,     \* the value objects of main
    cipher, decipher,  \* the Cipher / Decipher references of main (0: unset)
    heap,              \* the cipher state objects, by identity
    allocated,         \* number of state objects constructed so far
    encryptionedData, decryptionedData,
    result,            \* what main returned
    error,             \* what main threw
    raised,            \* the error as the failing call raised it
    trace,             \* the steps main has executed in this invocation
    changed,           \* the change made to the ciphertext: place, old character
    derived            \* one entry per key derivation: password, salt, key

vars == <<pc, run, target, password, salt, iv, commonKey, cipher, decipher, heap,
          allocated, encryptionedData, decryptionedData, result, error, raised,
          trace, changed, derived>>

\* The inputs: prefixes of a few periodic texts ("test", 2, 3 and 4 byte
\* characters, unpaired surrogates, U+FFFD, a mix of all widths).
Texts ==
    {<<116, 101, 115, 116>>, <<233>>, <<12354>>, <<55357, 56832>>,
     <<97, 56832>>, <<65533, 97>>, <<97, 233, 12354, 55357, 56832>>}

Targets ==
    {[i \in 1..n |-> t[((i - 1) % Len(t)) + 1]] : n \in 0..MaxLen, t \in Texts}

\* domain objects: holders of a string value
Password(v) == [value |-> v]
Salt(v) == [value |-> v]
InitializationVector(v) == [value |-> v]
CommonKey(v) == [value |-> v]

\* faulty variant: the whole base64 text instead of its first size characters
createRandomBytes_whole(size) ==
    {IF o.ok THEN Ok(Base64Encode(o.value)) ELSE o : o \in randomBytes(size)}

\* crypto.randomBytes(size).toString('base64').substring(0, size)
createRandomBytes(size) ==
    {IF o.ok THEN Ok(Substring0(Base64Encode(o.value), size)) ELSE o :
        o \in randomBytes(size)}

\* faulty variant: the iv of the running call is used as the salt
createCommonKey_ivSalted(pw, sl) ==
    {IF o.ok THEN Ok(CommonKey(Substring0(Base64Encode(o.value), keyLength))) ELSE o :
        o \in scryptSync(pw.value, iv.value, keyLength)}

\* crypto.scryptSync(password.value, salt.value, keyLength)
\*     .toString('base64').substring(0, keyLength)
createCommonKey(pw, sl) ==
    {IF o.ok THEN Ok(CommonKey(Substring0(Base64Encode(o.value), keyLength))) ELSE o :
        o \in scryptSync(pw.value, sl.value, keyLength)}

\* faulty variant: the key is stretched from a password of any length and
\* the iv is ignored (the deprecated crypto.createCipher)
createCipher_passwordOnly(key, v) ==
    Ok(NewState("cipher", ScryptBytes(Utf8Encode(key.value), <<>>, keyLength),
                [i \in 1..BlockSize |-> 0]))

createCipher(key, v) == createCipheriv("cipher", key.value, v.value)

\* faulty variant: the start of the key is used as the iv
createDecipher_keyAsIv(key, v) ==
    createCipheriv("decipher", key.value, Substring0(key.value, BlockSize))

createDecipher(key, v) == createCipheriv("decipher", key.value, v.value)

\* faulty variant: final is never called
encryption_noFinal(c, data) ==
    LET u == CipherUpdate(c, data)
    IN [obj |-> u.obj, res |-> Ok(u.out)]

\* faulty variant: the state object is updated a second time
encryption_twoUpdates(c, data) ==
    LET u == CipherUpdate(c, data)
        v == CipherUpdate(u.obj, <<>>)
        f == CipherFinal(v.obj)
    IN [obj |-> f.obj, res |-> Ok(u.out \o v.out \o f.out)]

\* cipher.update(target, 'utf8', 'hex') + cipher.final('hex')
encryption(c, data) ==
    LET u == CipherUpdate(c, data)
        f == CipherFinal(u.obj)
    IN [obj |-> f.obj, res |-> Ok(u.out \o f.out)]

\* faulty variant: final is never called
decryption_noFinal(d, data) ==
    LET u == DecipherUpdate(d, data)
    IN [obj |-> u.obj, res |-> Ok(u.out)]

\* faulty variant: a character that is no hex digit is read as 0
decryption_lenient(d, data) ==
    LET clean == [i \in DOMAIN data |-> IF HexVal(data[i]) < 0 THEN 48 ELSE data[i]]
        u == DecipherUpdate(d, clean)
        f == DecipherFinal(u.obj)
    IN [obj |-> f.obj,
        res |-> IF f.res.ok THEN Ok(u.out \o f.res.value) ELSE f.res]

\* decipher.update(target, 'hex', 'utf8') + decipher.final('utf8')
decryption(d, data) ==
    LET u == DecipherUpdate(d, data)
        f == DecipherFinal(u.obj)
    IN [obj |-> f.obj,
        res |-> IF f.res.ok THEN Ok(u.out \o f.res.value) ELSE f.res]

\* main has no try / catch: an error leaves main as it was raised.
Propagate(e) == e

Throw(step, e) ==
    /\ pc' = "thrown"
    /\ raised' = e
    /\ error' = Propagate(e)
    /\ trace' = Append(trace, step)

Goto(step, next) ==
    /\ pc' = next
    /\ trace' = Append(trace, step)
    /\ UNCHANGED <<raised, error>>

Init ==
    /\ pc = "password"
    /\ run = 1
    /\ target \in Targets
    /\ password = None /\ salt = None /\ iv = None /\ commonKey = None
    /\ cipher = 0 /\ decipher = 0
    /\ heap = <<>>
    /\ allocated = 0
    /\ encryptionedData = None /\ decryptionedData = None
    /\ result = None /\ error = None /\ raised = None
    /\ trace = <<>>
    /\ changed = None
    /\ derived = <<>>

MainPassword ==
    /\ pc = "password"
    /\ \E o \in createRandomBytes(RandomSize) :
        IF o.ok
        THEN password' = Password(o.value) /\ Goto("password", "salt")
        ELSE password' = password /\ Throw("password", o.error)
    /\ UNCHANGED <<changed, run, target, salt, iv, commonKey, cipher, decipher, heap,
                   allocated, encryptionedData, decryptionedData, result, derived>>

MainSalt ==
    /\ pc = "salt"
    /\ \E o \in createRandomBytes(RandomSize) :
        IF o.ok
        THEN salt' = Salt(o.value) /\ Goto("salt", "iv")
        ELSE salt' = salt /\ Throw("salt", o.error)
    /\ UNCHANGED <<changed, run, target, password, iv, commonKey, cipher, decipher, heap,
                   allocated, encryptionedData, decryptionedData, result, derived>>

MainIv ==
    /\ pc = "iv"
    /\ \E o \in createRandomBytes(RandomSize) :
        IF o.ok
        THEN iv' = InitializationVector(o.value) /\ Goto("iv", "commonKey")
        ELSE iv' = iv /\ Throw("iv", o.error)
    /\ UNCHANGED <<changed, run, target, password, salt, commonKey, cipher, decipher, heap,
                   allocated, encryptionedData, decryptionedData, result, derived>>

\* faulty variant: a failed derivation is caught and main goes on with an
\* empty key
MainCommonKey_caught ==
    /\ pc = "commonKey"
    /\ \E o \in createCommonKey(password, salt) :
        /\ commonKey' = (IF o.ok THEN o.value ELSE CommonKey(<<>>))
        /\ raised' = (IF o.ok THEN raised ELSE o.error)
        /\ derived' = derived
        /\ pc' = "createCipher"
        /\ trace' = Append(trace, "commonKey")
        /\ error' = error
    /\ UNCHANGED <<changed, run, target, password, salt, iv, cipher, decipher, heap,
                   allocated, encryptionedData, decryptionedData, result>>

MainCommonKey ==
    /\ pc = "commonKey"
    /\ \E o \in createCommonKey(password, salt) :
        IF o.ok
        THEN /\ commonKey' = o.value
             /\ derived' = Append(derived, [password |-> password.value,
                                            salt |-> salt.value,
                                            key |-> o.value.value])
             /\ Goto("commonKey", "createCipher")
        ELSE /\ UNCHANGED <<commonKey, derived>>
             /\ Throw("commonKey", o.error)
    /\ UNCHANGED <<changed, run, target, password, salt, iv, cipher, decipher, heap,
                   allocated, encryptionedData, decryptionedData, result>>

MainCreateCipher ==
    /\ pc = "createCipher"
    /\ LET o == createCipher(commonKey, iv)
       IN IF o.ok
          THEN /\ allocated' = allocated + 1
               /\ cipher' = allocated + 1
               /\ heap' = ((allocated + 1) :> o.value) @@ heap
               /\ Goto("createCipher", "encryption")
          ELSE /\ UNCHANGED <<allocated, cipher, heap>>
               /\ Throw("createCipher", o.error)
    /\ UNCHANGED <<changed, run, target, password, salt, iv, commonKey, decipher,
                   encryptionedData, decryptionedData, result, derived>>

MainEncryption ==
    /\ pc = "encryption"
    /\ LET r == encryption(heap[cipher], target)
       IN /\ heap' = [heap EXCEPT ![cipher] = r.obj]
          /\ IF r.res.ok
             THEN encryptionedData' = r.res.value
                  /\ Goto("encryption", "createDecipher")
             ELSE encryptionedData' = encryptionedData
                  /\ Throw("encryption", r.res.error)
    /\ UNCHANGED <<changed, run, target, password, salt, iv, commonKey, cipher, decipher,
                   allocated, decryptionedData, result, derived>>

MainCreateDecipher ==
    /\ pc = "createDecipher"
    /\ LET o == createDecipher(commonKey, iv)
       IN IF o.ok
          THEN /\ allocated' = allocated + 1
               /\ decipher' = allocated + 1
               /\ heap' = ((allocated + 1) :> o.value) @@ heap
               /\ Goto("createDecipher", "decryption")
          ELSE /\ UNCHANGED <<allocated, decipher, heap>>
               /\ Throw("createDecipher", o.error)
    /\ UNCHANGED <<changed, run, target, password, salt, iv, commonKey, cipher,
                   encryptionedData, decryptionedData, result, derived>>

MainDecryption ==
    /\ pc = "decryption"
    /\ LET r == decryption(heap[decipher], encryptionedData)
       IN /\ heap' = [heap EXCEPT ![decipher] = r.obj]
          /\ IF r.res.ok
             THEN decryptionedData' = r.res.value
                  /\ Goto("decryption", "return")
             ELSE decryptionedData' = decryptionedData
                  /\ Throw("decryption", r.res.error)
    /\ UNCHANGED <<changed, run, target, password, salt, iv, commonKey, cipher, decipher,
                   allocated, encryptionedData, result, derived>>

MainReturn ==
    /\ pc = "return"
    /\ result' = <<encryptionedData, decryptionedData>>
    /\ Goto("return", "done")
    /\ UNCHANGED <<changed, run, target, password, salt, iv, commonKey, cipher, decipher,
                   heap, allocated, encryptionedData, decryptionedData, derived>>

\* the arguments of repeated calls: "test" and one 3 byte character
RepeatTargets == {<<116, 101, 115, 116>>, <<12354>>}

\* The next call of main on the same processor: a new frame; nothing of the
\* previous call is reachable from it (the class has no mutable field).
Invoke ==
    /\ pc \in {"done", "thrown"}
    /\ run < MaxRuns
    /\ run' = run + 1
    /\ pc' = "password"
    /\ target' \in RepeatTargets
    /\ password' = None /\ salt' = None /\ iv' = None /\ commonKey' = None
    /\ cipher' = 0 /\ decipher' = 0
    /\ heap' = <<>>
    /\ encryptionedData' = None /\ decryptionedData' = None
    /\ result' = None /\ error' = None /\ raised' = None
    /\ trace' = <<>>
    /\ UNCHANGED <<allocated, changed, derived>>

\* index.ts: one processor, one call of main.
Next ==
    \/ MainPassword
    \/ MainSalt
    \/ MainIv
    \/ MainCommonKey
    \/ MainCreateCipher
    \/ MainEncryption
    \/ MainCreateDecipher
    \/ MainDecryption
    \/ MainReturn

Spec == Init /\ [][Next]_vars

\* ------------------------------------------- repeated calls of main
InitRepeat == Init /\ target \in RepeatTargets

NextRepeat ==
    \/ MainPassword
    \/ MainSalt
    \/ MainIv
    \/ MainCommonKey
    \/ MainCreateCipher
    \/ MainEncryption
    \/ MainCreateDecipher
    \/ MainDecryption
    \/ MainReturn
    \/ Invoke

SpecRepeat == InitRepeat /\ [][NextRepeat]_vars

\* ------------------------------- a ciphertext changed before decryption
Range(s) == {s[i] : i \in DOMAIN s}

\* the characters one character of the hex ciphertext is changed into: the
\* digit with its lowest or its highest bit flipped, the same digit in upper
\* case, and a character that is no hex digit
Replacements(ch) ==
    LET v == HexVal(ch)
    IN {HexDigit(IF v % 2 = 0 THEN v + 1 ELSE v - 1), HexDigit((v + 8) % 16), 122}
       \cup (IF ch >= 97 THEN {ch - 32} ELSE {})

Tamper ==
    /\ pc = "createDecipher"
    /\ changed = None
    /\ \E i \in 1..Len(encryptionedData) :
        \E ch \in Replacements(encryptionedData[i]) :
            /\ encryptionedData' = [encryptionedData EXCEPT ![i] = ch]
            /\ changed' = [at |-> i, was |-> encryptionedData[i]]
    /\ UNCHANGED <<pc, run, target, password, salt, iv, commonKey, cipher, decipher,
                   heap, allocated, decryptionedData, result, error, raised, trace,
                   derived>>

\* main before createCipher, the random source having given the same bytes
\* three times
InitTamper ==
    /\ pc = "createCipher"
    /\ run = 1
    /\ target \in {t \in Targets : Len(t) <= MaxTamperLen}
    /\ \E r \in createRandomBytes(RandomSize) :
        /\ r.ok
        /\ password = Password(r.value)
        /\ salt = Salt(r.value)
        /\ iv = InitializationVector(r.value)
    /\ \E k \in createCommonKey(password, salt) :
        /\ k.ok
        /\ commonKey = k.value
    /\ derived = <<[password |-> password.value, salt |-> salt.value,
                    key |-> commonKey.value]>>
    /\ cipher = 0 /\ decipher = 0
    /\ heap = <<>>
    /\ allocated = 0
    /\ encryptionedData = None /\ decryptionedData = None
    /\ result = None /\ error = None /\ raised = None
    /\ trace = <<"password", "salt", "iv", "commonKey">>
    /\ changed = None

NextTamper ==
    \/ MainCreateCipher
    \/ MainEncryption
    \/ Tamper
    \/ MainCreateDecipher
    \/ MainDecryption
    \/ MainReturn

SpecTamper == InitTamper /\ [][NextTamper]_vars

\* ------------------ createCipher / createDecipher on any key and iv
\* strings of every utf8 length around the required one, and a string of the
\* required number of characters one of which takes two bytes
StringsAround(n) ==
    {[i \in 1..m |-> 65 + (i % 26)] : m \in 0..(n + 2)}
    \cup {[i \in 1..n |-> IF i = 1 THEN 233 ELSE 65 + (i % 26)]}

InitConfig ==
    /\ pc \in {"createCipher", "createDecipher"}
    /\ run = 1
    /\ target = <<116, 101, 115, 116>>
    /\ password = None /\ salt = None
    /\ commonKey \in {CommonKey(k) : k \in StringsAround(keyLength)}
    /\ iv \in {InitializationVector(v) : v \in StringsAround(BlockSize)}
    /\ derived = <<>>
    /\ decipher = 0
    /\ decryptionedData = None
    /\ result = None /\ error = None /\ raised = None
    /\ changed = None
    /\ IF pc = "createCipher"
       THEN /\ cipher = 0 /\ heap = <<>> /\ allocated = 0
            /\ encryptionedData = None
            /\ trace = <<>>
       ELSE LET c == NewState("cipher", [i \in 1..keyLength |-> 65 + (i % 26)],
                              [i \in 1..BlockSize |-> 65 + (i % 26)])
                r == encryption(c, target)
            IN /\ cipher = 1 /\ heap = (1 :> r.obj) /\ allocated = 1
               /\ encryptionedData = r.res.value
               /\ trace = <<"createCipher", "encryption">>

NextConfig ==
    \/ MainCreateCipher
    \/ MainEncryption
    \/ MainCreateDecipher
    \/ MainDecryption
    \/ MainReturn

SpecConfig == InitConfig /\ [][NextConfig]_vars

\* ------------------------------------------------------------ properties
Order == <<"password", "salt", "iv", "commonKey", "createCipher", "encryption",
           "createDecipher", "decryption", "return">>

ByteLength(str) == Len(Utf8Encode(str))

\* no unpaired surrogate
WellFormed(str) ==
    \A i \in DOMAIN str :
        /\ IsHigh(str[i]) => (i < Len(str) /\ IsLow(str[i + 1]))
        /\ IsLow(str[i]) => (i > 1 /\ IsHigh(str[i - 1]))

\* C1 as stated: whenever main returns, the second element of the returned
\* pair is the argument of main, for every string.
C1_RoundTripEveryString == pc = "done" => result[2] = target

\* C1 amended: whenever main returns for an argument without unpaired
\* surrogates, the second element of the returned pair is that argument.
C1_RoundTrip == (pc = "done" /\ WellFormed(target)) => result[2] = target

\* six 3 byte characters: the last one straddles the block kept for final
C1_Witness ==
    /\ pc = "done"
    /\ target = <<12354, 12354, 12354, 12354, 12354, 12354>>
    /\ WellFormed(target)
    /\ Len(result[1]) = 4 * BlockSize
    /\ result[2] = target

\* C2: the generated password, salt and iv are 16 bytes long and the derived
\* key is 32 bytes long, as soon as they exist.
C2_Lengths ==
    /\ password # None => ByteLength(password.value) = 16
    /\ salt # None => ByteLength(salt.value) = 16
    /\ iv # None => ByteLength(iv.value) = 16
    /\ commonKey # None => ByteLength(commonKey.value) = 32

C2_Witness ==
    /\ pc = "done"
    /\ password.value # salt.value
    /\ ByteLength(password.value) = 16 /\ ByteLength(salt.value) = 16
    /\ ByteLength(iv.value) = 16 /\ ByteLength(commonKey.value) = 32

\* C3: two key derivations from the same password and salt give the same
\* key, whatever else differs between the two calls.
C3_Deterministic ==
    \A i \in DOMAIN derived : \A j \in DOMAIN derived :
        (derived[i].password = derived[j].password /\ derived[i].salt = derived[j].salt)
            => derived[i].key = derived[j].key

C3_Witness ==
    /\ Len(derived) = 2
    /\ derived[1].password = derived[2].password
    /\ derived[1].salt = derived[2].salt
    /\ derived[1].password # derived[1].salt
    /\ derived[1].key = derived[2].key

Tampered == changed # None

\* the change replaced a hex letter by the same letter in the other case
CaseChangeOnly ==
    /\ HexVal(encryptionedData[changed.at]) >= 0
    /\ HexVal(encryptionedData[changed.at]) = HexVal(changed.was)

\* C4 as stated: after any change of one byte of the ciphertext, decryption
\* throws or returns something other than the plaintext.
C4_AnyChangeDetected ==
    (Tampered /\ pc \in {"return", "done"}) => decryptionedData # target

\* C4 amended: after a change of one character of the hex ciphertext that is
\* not a mere change of case of a hex letter, decryption throws or returns
\* something other than the plaintext, for a plaintext without U+FFFD.
C4_ChangeDetected ==
    (Tampered /\ ~CaseChangeOnly /\ 65533 \notin Range(target)
        /\ pc \in {"return", "done"})
        => decryptionedData # target

C4_Witness ==
    /\ Tampered
    /\ ~CaseChangeOnly
    /\ 65533 \notin Range(target)
    /\ Len(encryptionedData) > 2 * BlockSize
    /\ changed.at <= 2 * BlockSize
    /\ pc = "done"
    /\ decryptionedData # target

\* the error codes by category
RandomGenerationCodes == {"ERR_CRYPTO_OPERATION_FAILED"}
KeyDerivationCodes == {"ERR_CRYPTO_SCRYPT_FAILED"}
CipherConfigurationCodes == {"ERR_CRYPTO_INVALID_KEYLEN", "ERR_CRYPTO_INVALID_IV"}
DecryptionIntegrityCodes == {"ERR_OSSL_WRONG_FINAL_BLOCK_LENGTH", "ERR_OSSL_BAD_DECRYPT"}

BadConfig == ByteLength(commonKey.value) # 32 \/ ByteLength(iv.value) # 16

\* C6: with a key that is not 32 bytes or an iv that is not 16 bytes, the
\* construction of the cipher state throws an error of the configuration
\* category and of no other, no state object is made and no ciphertext,
\* plaintext or result is produced.
C6_ConfigurationError ==
    BadConfig =>
        \/ pc \in {"createCipher", "createDecipher"} /\ error = None
        \/ /\ pc = "thrown"
           /\ error.code \in CipherConfigurationCodes
           /\ error.code \notin (RandomGenerationCodes \cup KeyDerivationCodes
                                 \cup DecryptionIntegrityCodes)
           /\ trace[Len(trace)] \in {"createCipher", "createDecipher"}
           /\ trace[Len(trace)] = "createCipher" =>
                (cipher = 0 /\ heap = <<>> /\ encryptionedData = None)
           /\ decipher = 0
           /\ Cardinality(DOMAIN heap) = allocated
           /\ decryptionedData = None
           /\ result = None

C6_Witness ==
    /\ pc = "thrown"
    /\ Len(commonKey.value) = 32
    /\ ByteLength(commonKey.value) = 33
    /\ ByteLength(iv.value) = 16
    /\ error = ErrKeyLen
    /\ trace = <<"createCipher", "encryption", "createDecipher">>

\* the locals of main in the order main sets them
Unset(k) ==
    /\ k < 1 => password = None
    /\ k < 2 => salt = None
    /\ k < 3 => iv = None
    /\ k < 4 => commonKey = None
    /\ k < 5 => cipher = 0
    /\ k < 6 => encryptionedData = None
    /\ k < 7 => decipher = 0
    /\ k < 8 => decryptionedData = None

\* C7: an error raised in a step ends main at that step with that very
\* error: nothing after the step has run and there is no result.
C7_Propagation ==
    /\ raised # None => pc = "thrown"
    /\ pc = "thrown" =>
        /\ raised # None
        /\ error = raised
        /\ result = None
        /\ trace = SubSeq(Order, 1, Len(trace))
        /\ Unset(Len(trace) - 1)

C7_Witness ==
    /\ pc = "thrown"
    /\ trace = <<"password", "salt", "iv", "commonKey">>
    /\ error = ErrScrypt
    /\ iv # None
    /\ commonKey = None

\* C8: a state object gets one update, then one final, and nothing more; the
\* object that encrypts is not the one that decrypts; a call of main starts
\* with no state object and every object belongs to the running call.
C8_SingleUse ==
    /\ \A id \in DOMAIN heap :
        /\ heap[id].calls \in {<<>>, <<"update">>, <<"update", "final">>}
        /\ id \in {cipher, decipher}
    /\ (cipher # 0 /\ decipher # 0) => cipher # decipher
    /\ pc \in {"createDecipher", "decryption", "return", "done"} =>
        (heap[cipher].kind = "cipher" /\ heap[cipher].calls = <<"update", "final">>)
    /\ pc \in {"return", "done"} =>
        (heap[decipher].kind = "decipher" /\ heap[decipher].calls = <<"update", "final">>)
    /\ pc = "password" => (heap = <<>> /\ cipher = 0 /\ decipher = 0)

C8_Witness ==
    /\ run = 2
    /\ pc = "done"
    /\ allocated = 4
    /\ cipher = 3 /\ decipher = 4
    /\ heap[3].calls = <<"update", "final">>
    /\ heap[4].calls = <<"update", "final">>

\* C9: the steps of main run in the order password, salt, iv, key, cipher,
\* encryption, decipher, decryption, return, each once; decryption has the
\* key and iv of encryption and takes its output; main returns the pair of
\* the ciphertext and the decrypted text.
C9_Order ==
    /\ trace = SubSeq(Order, 1, Len(trace))
    /\ Len(derived) <= 1
    /\ pc = "done" => (trace = Order /\ Len(derived) = 1)
    /\ pc \in {"decryption", "return", "done"} =>
        /\ heap[cipher].key = Utf8Encode(commonKey.value)
        /\ heap[decipher].key = heap[cipher].key
        /\ heap[cipher].iv = Utf8Encode(iv.value)
        /\ heap[decipher].iv = heap[cipher].iv
        /\ heap[cipher].input = target
    /\ pc \in {"return", "done"} => heap[decipher].input = encryptionedData
    /\ pc = "done" => result = <<encryptionedData, decryptionedData>>

C9_Witness ==
    /\ pc = "done"
    /\ trace = Order
    /\ Len(result[1]) > 2 * BlockSize
    /\ result[1] = encryptionedData
    /\ heap[decipher].input = result[1]

\* C10: the ciphertext is the output of update followed by the output of
\* final, all hex digits, 32 * (n div 16 + 1) characters for a plaintext of
\* n utf8 bytes.
C10_Shape ==
    encryptionedData # None =>
        LET n == ByteLength(target)
            c == NewState("cipher", Utf8Encode(commonKey.value), Utf8Encode(iv.value))
            u == CipherUpdate(c, target)
            f == CipherFinal(u.obj)
        IN /\ Len(encryptionedData) = 32 * ((n \div 16) + 1)
           /\ Len(encryptionedData) > 0
           /\ \A i \in DOMAIN encryptionedData : HexVal(encryptionedData[i]) >= 0
           /\ encryptionedData = u.out \o f.out
           /\ Len(u.out) = 32 * (n \div 16)
           /\ Len(f.out) = 32

C10_Witness ==
    /\ encryptionedData # None
    /\ ByteLength(target) = 16
    /\ Len(encryptionedData) = 64

====
